---- MODULE Spec2Model ----
(***************************************************************************)
(* OllamaContentGenerator (packages/core/src/core/ollamaContentGenerator.ts) *)
(* as a state machine: one call of generateContent or generateContentStream, *)
(* the HTTP response the server gives it, and, for a streaming call, the     *)
(* async generator convertOllamaStreamToGemini driven by a sequential        *)
(* consumer (for await: next() and return() are called only while the        *)
(* generator is suspended).                                                  *)
(*                                                                           *)
(* Bytes and characters are named by strings.  "LF" is the newline, "SP" a   *)
(* space, "C3" "A9" the two-byte UTF-8 encoding of U+00E9.  The JSON text of *)
(* a record is two bytes: an opening part ("{hi", "{fin", ...) that stands   *)
(* for everything up to the closing brace, and "}".                          *)
(***************************************************************************)
EXTENDS Integers, Sequences, FiniteSets, TLC

\* ------------------------------------------------------------------ bounds
\* Complete (newline-terminated) lines in a streamed response body.
MaxLines == 3
\* Bytes one reader.read() can deliver.
MaxChunk == 6
\* Turns of a conversation given to the prompt encoder.
MaxTurns == 3
\* Parts of the one turn of a conversation made to vary the parts.
MaxParts == 3

\* ------------------------------------------------------- JavaScript values
\* obj.f || '' for a string field that may be absent
OrEmpty(obj, f) == IF f \in DOMAIN obj /\ obj[f] # "" THEN obj[f] ELSE ""

\* obj.f || 0 for a numeric field that may be absent
OrZero(obj, f) == IF f \in DOMAIN obj /\ obj[f] # 0 THEN obj[f] ELSE 0

\* truthiness of a string field that may be absent
TruthyText(obj, f) == f \in DOMAIN obj /\ obj[f] # ""

\* truthiness of a boolean field that may be absent
TruthyFlag(obj, f) == f \in DOMAIN obj /\ obj[f] = TRUE

\* ------------------------------------------------------------- the records
\* The records a streamed line can hold, by the opening part of their text.
RecordTable ==
  [o \in {"{hi", "{fin", "{meta", "{end"} |->
     CASE o = "{hi"   -> [response |-> "Hi", done |-> FALSE]
       [] o = "{fin"  -> [response |-> "", done |-> TRUE,
                          prompt_eval_count |-> 1, eval_count |-> 1]
       [] o = "{meta" -> [thinking |-> "hm"]
       [] o = "{end"  -> [response |-> "Yo", done |-> TRUE, eval_count |-> 2]]

Opens == DOMAIN RecordTable

\* ---------------------------------------------------------------- decoding
\* TextDecoder.decode(value, {stream: true}): UTF-8 bytes to characters; an
\* incomplete sequence at the end of a chunk is held back in the decoder.
RECURSIVE Decode(_, _)
Decode(pending, bytes) ==
  IF bytes = <<>> THEN [text |-> <<>>, pending |-> pending]
  ELSE LET b == Head(bytes)
           rest == Tail(bytes)
       IN IF pending # <<>>
          THEN IF b = "A9"
               THEN LET d == Decode(<<>>, rest)
                    IN [text |-> <<"U+00E9">> \o d.text, pending |-> d.pending]
               ELSE LET d == Decode(<<>>, bytes)
                    IN [text |-> <<"U+FFFD">> \o d.text, pending |-> d.pending]
          ELSE IF b = "C3" THEN Decode(<<b>>, rest)
          ELSE LET d == Decode(<<>>, rest)
               IN [text |-> <<(IF b = "A9" THEN "U+FFFD" ELSE b)>> \o d.text,
                   pending |-> d.pending]

\* String.prototype.split('\n'): the pieces between newlines, at least one.
RECURSIVE Split(_)
Split(s) ==
  IF \A i \in DOMAIN s : s[i] # "LF" THEN <<s>>
  ELSE LET i == CHOOSE k \in DOMAIN s :
                  s[k] = "LF" /\ \A j \in 1..(k - 1) : s[j] # "LF"
       IN <<SubSeq(s, 1, i - 1)>> \o Split(SubSeq(s, i + 1, Len(s)))

\* String.prototype.trim(), and the whitespace JSON.parse skips around a value
RECURSIVE Trim(_)
Trim(s) ==
  IF s = <<>> THEN s
  ELSE IF Head(s) = "SP" THEN Trim(Tail(s))
  ELSE IF s[Len(s)] = "SP" THEN Trim(SubSeq(s, 1, Len(s) - 1))
  ELSE s

\* JSON.parse(line): an object, or a SyntaxError (the bodies hold no JSON
\* value that is not an object).
JSONParse(line) ==
  LET t == Trim(line)
  IN IF Len(t) = 2 /\ t[1] \in Opens /\ t[2] = "}"
     THEN [kind |-> "object", value |-> RecordTable[t[1]]]
     ELSE [kind |-> "SyntaxError"]

\* ------------------------------------------------------------ normalizing
\* UsageMetadata of a raw record.
UsageOf(raw) ==
  [promptTokenCount |-> OrZero(raw, "prompt_eval_count"),
   candidatesTokenCount |-> OrZero(raw, "eval_count"),
   totalTokenCount |-> OrZero(raw, "prompt_eval_count") + OrZero(raw, "eval_count")]

\* The streamResponse object with usageMetadata built unconditionally, as
\* convertOllamaResponseToGemini builds it.
StreamResponseAlwaysUsage(chunk) ==
  [text |-> OrEmpty(chunk, "response"),
   finishReason |-> IF TruthyFlag(chunk, "done") THEN "STOP" ELSE "undefined",
   usageMetadata |-> <<UsageOf(chunk)>>]

\* The streamResponse object built for a chunk (usageMetadata: <<>> is
\* undefined, <<u>> is the object u).
StreamResponse(chunk) ==
  [text |-> OrEmpty(chunk, "response"),
   finishReason |-> IF TruthyFlag(chunk, "done") THEN "STOP" ELSE "undefined",
   usageMetadata |-> IF TruthyFlag(chunk, "done") THEN <<UsageOf(chunk)>> ELSE <<>>]

\* The filter with the completion flag forgotten: if (chunk.response)
ShouldYieldTextOnly(chunk) == TruthyText(chunk, "response")

\* if (chunk.response || chunk.done)
ShouldYield(chunk) == TruthyText(chunk, "response") \/ TruthyFlag(chunk, "done")

\* convertOllamaResponseToGemini
ConvertOllamaResponseToGemini(raw) ==
  [text |-> OrEmpty(raw, "response"),
   finishReason |-> IF TruthyFlag(raw, "done") THEN "STOP" ELSE "undefined",
   usageMetadata |-> <<UsageOf(raw)>>]

\* ------------------------------------------------------ the prompt encoder
\* Strings are sequences of pieces: "LF" and "SP" are one character each,
\* every other piece is the text it shows.

\* Array.prototype.join(sep)
RECURSIVE Join(_, _)
Join(strs, sep) ==
  IF strs = <<>> THEN <<>>
  ELSE IF Len(strs) = 1 THEN strs[1]
  ELSE strs[1] \o sep \o Join(Tail(strs), sep)

\* A string value as pieces.
Str(text) == IF text = "" THEN <<>> ELSE <<text>>

\* JSON.stringify(part.functionResponse.response), inside a template literal
Stringify(functionResponse) ==
  IF "response" \in DOMAIN functionResponse
  THEN <<"{\"ok\":true}">>
  ELSE <<"undefined">>

\* The callback of parts.map in convertPartsToText.
RenderPart(part) ==
  IF "text" \in DOMAIN part /\ part.text # "" THEN Str(part.text)
  ELSE IF "functionCall" \in DOMAIN part
  THEN <<"[Function Call: ", part.functionCall.name, "]">>
  ELSE IF "functionResponse" \in DOMAIN part
  THEN <<"[Function Response: ">> \o Stringify(part.functionResponse) \o <<"]">>
  ELSE <<"[Unsupported content type]">>

\* convertPartsToText
ConvertPartsToText(parts) ==
  Join([i \in DOMAIN parts |-> RenderPart(parts[i])], <<"SP">>)

\* content.parts || []
PartsOf(content) == IF "parts" \in DOMAIN content THEN content.parts ELSE <<>>

\* The callback of contents.map in convertContentsToPrompt.
RenderContent(content) ==
  LET role == IF "role" \in DOMAIN content THEN content.role ELSE "undefined"
  IN IF role = "system" THEN <<"System: ">> \o ConvertPartsToText(PartsOf(content))
     ELSE IF role = "user" THEN <<"User: ">> \o ConvertPartsToText(PartsOf(content))
     ELSE IF role = "model"
     THEN <<"Assistant: ">> \o ConvertPartsToText(PartsOf(content))
     ELSE ConvertPartsToText(PartsOf(content))

\* convertContentsToPrompt joining the turns with one newline: join('\n')
ConvertContentsToPromptOneNewline(cs) ==
  Join([i \in DOMAIN cs |-> RenderContent(cs[i])], <<"LF">>)

\* convertContentsToPrompt
ConvertContentsToPrompt(cs) ==
  Join([i \in DOMAIN cs |-> RenderContent(cs[i])], <<"LF", "LF">>)

\* String.prototype.length
RECURSIVE Length(_)
Length(str) ==
  IF str = <<>> THEN 0
  ELSE Length(Tail(str)) +
       (CASE Head(str) \in {"LF", "SP", "f", "]"} -> 1
          [] Head(str) = "hi" -> 2
          [] Head(str) = "System: " -> 8
          [] Head(str) = "User: " -> 6
          [] Head(str) = "Assistant: " -> 11
          [] Head(str) = "[Function Call: " -> 16
          [] Head(str) = "[Function Response: " -> 20
          [] Head(str) = "{\"ok\":true}" -> 11
          [] Head(str) = "undefined" -> 9
          [] Head(str) = "[Unsupported content type]" -> 26)

\* typeof c === 'object': a string among the contents is the record
\* [typeof |-> "string"], a Content object has no such field.
IsObject(c) == "typeof" \notin DOMAIN c

\* The parts a turn can hold.
PartKinds ==
  {[text |-> "hi"], [text |-> ""], [functionCall |-> [name |-> "f"]],
   [functionResponse |-> [response |-> [ok |-> TRUE]]], [inlineData |-> "img"]}

\* The turns of the conversations of several turns: every role the three
\* branches name, another role, no role, no parts.
TurnKinds ==
  {[role |-> r, parts |-> ps] :
     r \in {"system", "user", "model", "function"},
     ps \in {<<>>, <<[text |-> "hi"]>>}}
    \cup {[parts |-> <<[text |-> "hi"]>>], [role |-> "user"]}

\* What countTokens can be given: up to MaxTurns turns with simple parts, or
\* one turn with up to MaxParts parts of every kind, or a string and a turn.
ContentLists ==
  UNION {[1..n -> TurnKinds] : n \in 0..MaxTurns}
    \cup {<<[role |-> "user", parts |-> ps]>> :
            ps \in UNION {[1..n -> PartKinds] : n \in 0..MaxParts}}
    \cup {<<[typeof |-> "string"], [role |-> "user", parts |-> <<[text |-> "hi"]>>]>>}

\* --------------------------------------------------------- the environment
\* What the server can answer: status and reason phrase.
HttpResponses ==
  {[status |-> 200, statusText |-> "OK"],
   [status |-> 400, statusText |-> "Bad Request"],
   [status |-> 404, statusText |-> "Not Found"],
   [status |-> 500, statusText |-> "Internal Server Error"]}

\* Response.ok
Ok(resp) == resp.status \in 200..299

\* The complete lines a streamed body can hold (without their newline).
LineKinds ==
  {<<>>, <<"SP">>, <<"C3", "A9">>} \cup {<<o, "}">> : o \in Opens}

\* What can follow the last newline of a streamed body.
TailKinds == {<<>>, <<"{fin">>, <<"{fin", "}">>}

RECURSIVE JoinLines(_)
JoinLines(ls) ==
  IF ls = <<>> THEN <<>> ELSE Head(ls) \o <<"LF">> \o JoinLines(Tail(ls))

\* The streamed bodies: up to MaxLines newline-terminated lines and a tail.
Bodies ==
  {JoinLines(ls) \o t :
     ls \in UNION {[1..k -> LineKinds] : k \in 0..MaxLines}, t \in TailKinds}

\* The JSON bodies of a non-streaming answer: every field present or absent.
RawRecords ==
  {[f \in fs |->
      CASE f = "response" -> r
        [] f = "done" -> d
        [] f = "prompt_eval_count" -> p
        [] f = "eval_count" -> e] :
     fs \in SUBSET {"response", "done", "prompt_eval_count", "eval_count"},
     r \in {"", "hello"}, d \in BOOLEAN, p \in {0, 3}, e \in {0, 2}}

\* The error a failing reader.read() rejects with.
IOError == <<"network error">>

\* The texts the model can answer generateJson with: nothing, JSON, JSON
\* inside prose, two objects with prose between them, no JSON at all.
JsonTexts ==
  {<<>>,
   <<"{hi", "}">>,
   <<"Sure: ", "{hi", "}", " ok">>,
   <<"{hi", "}", " and ", "{fin", "}">>,
   <<"no json">>}

\* What response.json() can give generateJson.
JsonResults == {[response |-> t] : t \in JsonTexts} \cup {[done |-> TRUE]}

\* The contents generateJson is called with: none, or one turn.
JsonContents == {<<>>} \cup {<<t>> : t \in TurnKinds}

\* The model argument of generateJson: absent, empty or a name.
ModelArgs == {<<>>, <<"">>, <<"llama3">>}

\* The variables validateAuthMethod reads.
EnvNames ==
  {"GEMINI_API_KEY", "GOOGLE_CLOUD_PROJECT", "GOOGLE_CLOUD_LOCATION",
   "GOOGLE_API_KEY"}

\* process.env: each variable unset (<<>>), set and empty, or set.
Envs == [EnvNames -> {<<>>, <<"">>, <<"x">>}]

\* The members of the enum, each its own value.
AuthType ==
  [LOGIN_WITH_GOOGLE |-> "LOGIN_WITH_GOOGLE",
   USE_GEMINI |-> "USE_GEMINI",
   USE_VERTEX_AI |-> "USE_VERTEX_AI",
   CLOUD_SHELL |-> "CLOUD_SHELL",
   USE_OLLAMA |-> "USE_OLLAMA"]

\* The strings validateAuthMethod is called with.
AuthMethods == {AuthType[f] : f \in DOMAIN AuthType} \cup {"", "bogus"}

\* ------------------------------------------------------------------- state
VARIABLES
  pc,         \* where the call is: "idle", then for generateContent "returned"
              \* or "failed", and for the generator "suspendedStart",
              \* "awaitRead", "forLines", "suspendedYield", "completed"
              \* (ran to its end), "closed" (by return()) or "failed"
  requests,   \* fetch calls made
  response,   \* the HTTP response of generateContent and
              \* generateContentStream: <<>> before the call, then <<resp>>
  raw,        \* what response.json() gave generateContent: <<>> or <<record>>
  hasBody,    \* response.body is not null
  stream,     \* the bytes of response.body
  pos,        \* how many of them the reader has delivered
  readFailed, \* a reader.read() has rejected
  decoder,    \* bytes the TextDecoder holds back
  buffer,     \* let buffer
  lines,      \* the lines of the for loop not yet visited
  events,     \* what the generator has yielded
  acquired,   \* getReader calls
  released,   \* releaseLock calls
  error,      \* the message of the error thrown to the caller, in parts
  result      \* what generateContent returned: <<>> or <<response>>

VARIABLES
  contents,    \* the Content objects given to convertContentsToPrompt
  prompt,      \* what convertContentsToPrompt returned
  totalTokens, \* what countTokens returned
  parked,      \* a second call, not running now: its response, its error and
               \* the locals of its generator
  running,     \* which of the two calls the other variables belong to
  sent,        \* the requests of generateJson in order: what each carried
               \* and what came back
  jsonValue,   \* what generateJson returned: <<>> or <<object>>
  authMethod,  \* the argument of validateAuthMethod: <<>> before the call
  env,         \* process.env at the checks of validateAuthMethod
  verdict      \* what validateAuthMethod returned: <<>> before the call,
               \* then <<"null">> or <<message>>

\* What the generate calls and the generator leave alone.
otherVars ==
  <<contents, prompt, totalTokens, parked, running, sent, jsonValue,
    authMethod, env, verdict>>

vars == <<pc, requests, response, raw, hasBody, stream, pos, readFailed, decoder, buffer,
          lines, events, acquired, released, error, result, otherVars>>

genVars == <<hasBody, stream, pos, readFailed, decoder, buffer, lines, events,
             acquired, released>>

Init ==
  /\ pc = "idle"
  /\ requests = 0
  /\ response = <<>>
  /\ raw = <<>>
  /\ hasBody = FALSE
  /\ stream = <<>>
  /\ pos = 0
  /\ readFailed = FALSE
  /\ decoder = <<>>
  /\ buffer = <<>>
  /\ lines = <<>>
  /\ events = <<>>
  /\ acquired = 0
  /\ released = 0
  /\ error = <<>>
  /\ result = <<>>
  /\ contents = <<>>
  /\ prompt = <<>>
  /\ totalTokens = 0
  /\ parked = [pc |-> "idle", response |-> <<>>, error |-> <<>>,
               hasBody |-> FALSE, stream |-> <<>>, pos |-> 0,
               readFailed |-> FALSE, decoder |-> <<>>, buffer |-> <<>>,
               lines |-> <<>>, events |-> <<>>, acquired |-> 0, released |-> 0]
  /\ running = 1
  /\ sent = <<>>
  /\ jsonValue = <<>>
  /\ authMethod = <<>>
  /\ env = [v \in EnvNames |-> <<>>]
  /\ verdict = <<>>

\* `Ollama API error: ${response.status} ${response.statusText}`
ApiError(resp) ==
  <<"Ollama API error: ", ToString(resp.status), " ", resp.statusText>>

\* ------------------------------------------------------- generateContent
\* fetch, the status check, response.json() and the conversion; an error
\* thrown inside the try is rethrown with a prefix.
GenerateContentOutcome(resp, json) ==
  IF ~Ok(resp)
  THEN /\ pc' = "failed"
       /\ error' = <<"Ollama generation failed: ">> \o ApiError(resp)
       /\ raw' = <<>>
       /\ result' = <<>>
  ELSE /\ pc' = "returned"
       /\ error' = <<>>
       /\ raw' = <<json>>
       /\ result' = <<ConvertOllamaResponseToGemini(json)>>

GenerateContent ==
  /\ UNCHANGED otherVars
  /\ pc = "idle"
  /\ \E resp \in HttpResponses, json \in RawRecords :
       /\ requests' = requests + 1
       /\ response' = <<resp>>
       /\ GenerateContentOutcome(resp, json)
  /\ UNCHANGED genVars

\* ------------------------------------------------- generateContentStream
\* generateContentStream without the status check: the generator is created
\* over whatever body the error response has.
GenerateContentStreamUnchecked(resp, present, body) ==
  /\ pc' = "suspendedStart"
  /\ error' = <<>>
  /\ hasBody' = present
  /\ stream' = IF present THEN body ELSE <<>>

\* fetch and the status check; on success the generator is created
\* suspended at its start, nothing of its body has run.
GenerateContentStreamOutcome(resp, present, body) ==
  IF ~Ok(resp)
  THEN /\ pc' = "failed"
       /\ error' = ApiError(resp)
       /\ UNCHANGED <<hasBody, stream>>
  ELSE /\ pc' = "suspendedStart"
       /\ error' = <<>>
       /\ hasBody' = present
       /\ stream' = IF present THEN body ELSE <<>>

\* The call answered with one of the given bodies.
GenerateContentStreamOver(bodies) ==
  /\ UNCHANGED otherVars
  /\ pc = "idle"
  /\ \E resp \in HttpResponses, present \in BOOLEAN, body \in bodies :
       /\ requests' = requests + 1
       /\ response' = <<resp>>
       /\ GenerateContentStreamOutcome(resp, present, body)
  /\ UNCHANGED <<raw, pos, readFailed, decoder, buffer, lines, events, acquired,
                 released, result>>

GenerateContentStream == GenerateContentStreamOver(Bodies)

\* ------------------------------------------- convertOllamaStreamToGemini
\* reader.releaseLock() of the finally block
ReleaseLock == released' = released + 1

\* The loop goes on: the next line of the for loop, or the next read.
Continue(rest) ==
  /\ lines' = rest
  /\ pc' = IF rest = <<>> THEN "awaitRead" ELSE "forLines"

\* The consumer's first next(): the body runs up to its first await:
\* getReader, or the throw when there is no body (before the try).
Start ==
  /\ UNCHANGED otherVars
  /\ pc = "suspendedStart"
  /\ IF hasBody
     THEN /\ acquired' = acquired + 1
          /\ pc' = "awaitRead"
          /\ error' = error
     ELSE /\ acquired' = acquired
          /\ pc' = "failed"
          /\ error' = <<"No response body available">>
  /\ UNCHANGED <<requests, response, raw, hasBody, stream, pos, readFailed, decoder, buffer,
                 lines, events, released, result>>

\* A chunk handled with the buffer overwritten instead of appended to:
\* buffer = decoder.decode(value)
OnChunkNoCarry(value) ==
  LET d == Decode(decoder, value)
      pieces == Split(d.text)
  IN /\ decoder' = d.pending
     /\ buffer' = pieces[Len(pieces)]
     /\ Continue(SubSeq(pieces, 1, Len(pieces) - 1))

\* What the loop does with a delivered chunk: decode, append, split, keep
\* the last piece.
OnChunk(value) ==
  LET d == Decode(decoder, value)
      pieces == Split(buffer \o d.text)
  IN /\ decoder' = d.pending
     /\ buffer' = pieces[Len(pieces)]
     /\ Continue(SubSeq(pieces, 1, Len(pieces) - 1))

\* reader.read() resolves with the next bytes of the body.
ReadChunk ==
  /\ UNCHANGED otherVars
  /\ pc = "awaitRead"
  /\ \E n \in 0..MaxChunk :
       /\ pos + n <= Len(stream)
       /\ pos' = pos + n
       /\ OnChunk(SubSeq(stream, pos + 1, pos + n))
  /\ UNCHANGED <<requests, response, raw, hasBody, stream, readFailed, events, acquired,
                 released, error, result>>

\* End of stream with the rest of the buffer parsed as a last line.
OnDoneFlush ==
  LET parsed == JSONParse(buffer)
  IN /\ pc' = "completed"
     /\ ReleaseLock
     /\ events' = IF parsed.kind = "object" /\ ShouldYield(parsed.value)
                  THEN Append(events, StreamResponse(parsed.value))
                  ELSE events
     /\ UNCHANGED <<decoder, buffer, lines, error>>

\* reader.read() resolves with done: break, then the finally block.
OnDone ==
  /\ pc' = "completed"
  /\ ReleaseLock
  /\ UNCHANGED <<decoder, buffer, lines, events, error>>

ReadDone ==
  /\ UNCHANGED otherVars
  /\ pc = "awaitRead"
  /\ pos = Len(stream)
  /\ OnDone
  /\ UNCHANGED <<requests, response, raw, hasBody, stream, pos, readFailed, acquired, result>>

\* A rejected read caught and skipped the way a malformed line is: the
\* generator ends as if the stream had ended.
OnReadRejectedSwallowed ==
  /\ pc' = "completed"
  /\ error' = error
  /\ ReleaseLock
  /\ UNCHANGED <<decoder, buffer, lines, events>>

\* reader.read() rejects: no catch around it, the finally block runs and
\* the error leaves the generator.
OnReadRejected ==
  /\ pc' = "failed"
  /\ error' = IOError
  /\ ReleaseLock
  /\ UNCHANGED <<decoder, buffer, lines, events>>

ReadError ==
  /\ UNCHANGED otherVars
  /\ pc = "awaitRead"
  /\ readFailed' = TRUE
  /\ OnReadRejected
  /\ UNCHANGED <<requests, response, raw, hasBody, stream, pos, acquired, result>>

\* One iteration with JSON.parse outside any try: a line that does not
\* parse ends the generator with the SyntaxError.
OnLineParseFatal(line, rest) ==
  LET parsed == JSONParse(line)
  IN IF Trim(line) # <<>> /\ parsed.kind = "object" /\ ShouldYield(parsed.value)
     THEN /\ events' = Append(events, StreamResponse(parsed.value))
          /\ lines' = rest
          /\ pc' = "suspendedYield"
     ELSE IF Trim(line) # <<>> /\ parsed.kind = "SyntaxError"
     THEN /\ events' = events
          /\ lines' = rest
          /\ pc' = "failed"
     ELSE /\ events' = events
          /\ Continue(rest)

\* One iteration of for (const line of lines).
OnLine(line, rest) ==
  LET parsed == JSONParse(line)
  IN IF Trim(line) # <<>> /\ parsed.kind = "object" /\ ShouldYield(parsed.value)
     THEN /\ events' = Append(events, StreamResponse(parsed.value))
          /\ lines' = rest
          /\ pc' = "suspendedYield"
     ELSE \* a blank line; a SyntaxError, caught; a record that is not
          \* yielded
          /\ events' = events
          /\ Continue(rest)

StepLine ==
  /\ UNCHANGED otherVars
  /\ pc = "forLines"
  /\ OnLine(Head(lines), Tail(lines))
  /\ UNCHANGED <<requests, response, raw, hasBody, stream, pos, readFailed, decoder, buffer,
                 acquired, released, error, result>>

\* The consumer's next() while the generator is suspended at the yield.
Resume ==
  /\ UNCHANGED otherVars
  /\ pc = "suspendedYield"
  /\ Continue(lines)
  /\ UNCHANGED <<requests, response, raw, hasBody, stream, pos, readFailed, decoder, buffer,
                 events, acquired, released, error, result>>

\* return() at the yield with the release placed after the loop instead of
\* in a finally block.
OnReturnNoFinally ==
  /\ pc' = "closed"
  /\ released' = released

\* The consumer's return() at the yield: the finally block runs.
OnReturn ==
  /\ pc' = "closed"
  /\ ReleaseLock

ReturnAtYield ==
  /\ UNCHANGED otherVars
  /\ pc = "suspendedYield"
  /\ OnReturn
  /\ UNCHANGED <<requests, response, raw, hasBody, stream, pos, readFailed, decoder, buffer,
                 lines, events, acquired, error, result>>

\* The consumer's return() before the first next(): no body has run.
ReturnAtStart ==
  /\ UNCHANGED otherVars
  /\ pc = "suspendedStart"
  /\ pc' = "closed"
  /\ UNCHANGED <<requests, response, raw, hasBody, stream, pos, readFailed, decoder, buffer,
                 lines, events, acquired, released, error, result>>

\* ------------------------------------------------------------ countTokens
\* The prompt of the Content objects among the contents, and a quarter of
\* its length, rounded up.
CountTokens ==
  /\ pc = "idle"
  /\ \E cs \in ContentLists :
       /\ contents' = SelectSeq(cs, IsObject)
       /\ prompt' = ConvertContentsToPrompt(contents')
       /\ totalTokens' = (Length(prompt') + 3) \div 4
  /\ pc' = "counted"
  /\ UNCHANGED <<requests, response, raw, error, result, genVars, parked, running>>
  /\ UNCHANGED <<sent, jsonValue, authMethod, env, verdict>>

\* ------------------------------------------------------------ generateJson
\* model || 'gpt-oss:20b'
TargetModel(model) ==
  IF model # <<>> /\ model[1] # "" THEN model[1] ELSE "gpt-oss:20b"

\* `${prompt}\n\nPlease respond with valid JSON that matches this schema: ...`
JsonPrompt(cs) ==
  ConvertContentsToPrompt(cs) \o
    <<"\n\nPlease respond with valid JSON that matches this schema: ",
      "SCHEMA">>

\* The request with the format constraint, or without it.
JsonRequest(model, cs, constrained) ==
  [model |-> TargetModel(model), prompt |-> JsonPrompt(cs), stream |-> FALSE,
   format |-> IF constrained THEN <<"json">> ELSE <<>>]

\* A second request after any failing answer.
ShouldRetryAnyFailure(resp) == ~Ok(resp)

\* !response.ok && response.status === 400
ShouldRetry(resp) == ~Ok(resp) /\ resp.status = 400

\* result.response || ''
ResponseText(json) ==
  IF "response" \in DOMAIN json THEN json.response ELSE <<>>

\* responseText.match(/\{[\s\S]*\}/): from the first opening brace to
\* the last closing brace after it, or no match.
JsonMatch(text) ==
  LET opens == {i \in DOMAIN text : text[i] \in Opens}
      first == CHOOSE i \in opens : \A j \in opens : i <= j
      closes == {i \in DOMAIN text : text[i] = "}" /\ i > first}
      last == CHOOSE i \in closes : \A j \in closes : j <= i
  IN IF opens = {} \/ closes = {} THEN <<>>
     ELSE <<SubSeq(text, first, last)>>

\* JSON.parse(responseText), and on a SyntaxError JSON.parse of the match of
\* the regular expression; a SyntaxError of the second parse is thrown as it
\* is.
ParseResponseText(text) ==
  LET whole == JSONParse(text)
      found == JsonMatch(text)
  IN IF whole.kind = "object" THEN [ok |-> TRUE, value |-> whole.value]
     ELSE IF found = <<>>
     THEN [ok |-> FALSE,
           message |-> <<"Failed to parse JSON from Ollama response: ">> \o text]
     ELSE IF JSONParse(found[1]).kind = "object"
     THEN [ok |-> TRUE, value |-> JSONParse(found[1]).value]
     ELSE [ok |-> FALSE, message |-> <<"SyntaxError">>]

\* The two fetches: the second is made when the first answer asks for it.
\* A reply is <<resp>>, or <<>> when fetch rejected.
Exchanges(model, cs, reply1, reply2) ==
  LET first == [request |-> JsonRequest(model, cs, TRUE), reply |-> reply1]
      second == [request |-> JsonRequest(model, cs, FALSE), reply |-> reply2]
  IN IF reply1 # <<>> /\ ShouldRetry(reply1[1])
     THEN <<first, second>>
     ELSE <<first>>

\* What the call comes to after its last fetch: an error with the prefix of
\* the outer catch, or the parsed object.
JsonOutcome(reply, json) ==
  IF reply = <<>>
  THEN [ok |-> FALSE,
        message |-> <<"Ollama JSON generation failed: ">> \o IOError]
  ELSE IF ~Ok(reply[1])
  THEN [ok |-> FALSE,
        message |-> <<"Ollama JSON generation failed: ">> \o ApiError(reply[1])]
  ELSE IF ~ParseResponseText(ResponseText(json)).ok
  THEN [ok |-> FALSE,
        message |-> <<"Ollama JSON generation failed: ">> \o
                      ParseResponseText(ResponseText(json)).message]
  ELSE [ok |-> TRUE, value |-> ParseResponseText(ResponseText(json)).value]

GenerateJson ==
  /\ pc = "idle"
  /\ \E model \in ModelArgs, cs \in JsonContents,
        reply1 \in {<<r>> : r \in HttpResponses} \cup {<<>>},
        reply2 \in {<<r>> : r \in HttpResponses} \cup {<<>>},
        json \in JsonResults :
       LET exchanges == Exchanges(model, cs, reply1, reply2)
           last == exchanges[Len(exchanges)].reply
           outcome == JsonOutcome(last, json)
       IN /\ contents' = cs
          /\ prompt' = JsonPrompt(cs)
          /\ sent' = exchanges
          /\ requests' = requests + Len(exchanges)
          /\ pc' = IF outcome.ok THEN "jsonReturned" ELSE "jsonFailed"
          /\ error' = IF outcome.ok THEN <<>> ELSE outcome.message
          /\ jsonValue' = IF outcome.ok THEN <<outcome.value>> ELSE <<>>
  /\ UNCHANGED <<response, raw, result, genVars, totalTokens, parked, running>>
  /\ UNCHANGED <<authMethod, env, verdict>>

\* ------------------------------------------------------ validateAuthMethod
\* !!process.env[name]
IsSet(e, name) == e[name] # <<>> /\ e[name][1] # ""

\* Vertex AI accepted with the project or the location alone.
HasVertexProjectOrLocation(e) ==
  IsSet(e, "GOOGLE_CLOUD_PROJECT") \/ IsSet(e, "GOOGLE_CLOUD_LOCATION")

\* hasVertexProjectLocationConfig
HasVertexProjectLocationConfig(e) ==
  IsSet(e, "GOOGLE_CLOUD_PROJECT") /\ IsSet(e, "GOOGLE_CLOUD_LOCATION")

\* The value returned for a method under an environment.
ValidateAuthMethodResult(method, e) ==
  IF method = AuthType.LOGIN_WITH_GOOGLE \/ method = AuthType.CLOUD_SHELL
  THEN "null"
  ELSE IF method = AuthType.USE_GEMINI
  THEN IF ~IsSet(e, "GEMINI_API_KEY")
       THEN "GEMINI_API_KEY environment variable not found."
       ELSE "null"
  ELSE IF method = AuthType.USE_VERTEX_AI
  THEN IF ~HasVertexProjectLocationConfig(e) /\ ~IsSet(e, "GOOGLE_API_KEY")
       THEN "When using Vertex AI, you must specify either:"
       ELSE "null"
  ELSE IF method = AuthType.USE_OLLAMA
  THEN "null"
  ELSE "Invalid auth method selected."

ValidateAuthMethod ==
  /\ pc = "idle"
  /\ \E method \in AuthMethods, e \in Envs :
       /\ authMethod' = <<method>>
       /\ env' = e
       /\ verdict' = <<ValidateAuthMethodResult(method, e)>>
  /\ pc' = "validated"
  /\ UNCHANGED <<requests, response, raw, error, result, genVars>>
  /\ UNCHANGED <<contents, prompt, totalTokens, parked, running, sent, jsonValue>>

\* ------------------------------------------------------- two calls at once
\* The bodies of the calls that run side by side.
SmallBodies ==
  {<<"{hi", "}", "LF", "{fin", "}", "LF">>,
   <<"C3", "A9", "LF", "{end", "}", "LF">>,
   <<"{hi", "}", "LF", "{fin">>}

\* generateContentStream answered with one of the small bodies.
GenerateContentStreamSmall ==
  GenerateContentStreamOver(SmallBodies \cup {<<>>})

\* The running call as a record of the shape of parked.
Running ==
  [pc |-> pc, response |-> response, error |-> error, hasBody |-> hasBody,
   stream |-> stream, pos |-> pos, readFailed |-> readFailed,
   decoder |-> decoder, buffer |-> buffer, lines |-> lines, events |-> events,
   acquired |-> acquired, released |-> released]

\* The other call with the buffer a variable of the module, shared by the
\* calls, instead of a local of the generator.
SwitchSharedBuffer ==
  /\ parked' = Running
  /\ running' = 3 - running
  /\ pc' = parked.pc
  /\ response' = parked.response
  /\ error' = parked.error
  /\ hasBody' = parked.hasBody
  /\ stream' = parked.stream
  /\ pos' = parked.pos
  /\ readFailed' = parked.readFailed
  /\ decoder' = parked.decoder
  /\ buffer' = buffer
  /\ lines' = parked.lines
  /\ events' = parked.events
  /\ acquired' = parked.acquired
  /\ released' = parked.released

\* The event loop goes over to the other call: what runs next is its
\* continuation, on its own response, reader, decoder, buffer and lines.
SwitchCalls ==
  /\ parked' = Running
  /\ running' = 3 - running
  /\ pc' = parked.pc
  /\ response' = parked.response
  /\ error' = parked.error
  /\ hasBody' = parked.hasBody
  /\ stream' = parked.stream
  /\ pos' = parked.pos
  /\ readFailed' = parked.readFailed
  /\ decoder' = parked.decoder
  /\ buffer' = parked.buffer
  /\ lines' = parked.lines
  /\ events' = parked.events
  /\ acquired' = parked.acquired
  /\ released' = parked.released

Switch ==
  /\ SwitchCalls
  /\ UNCHANGED <<requests, raw, result, contents, prompt, totalTokens>>
  /\ UNCHANGED <<sent, jsonValue, authMethod, env, verdict>>

NextTwo ==
  \/ Switch
  \/ GenerateContentStreamSmall
  \/ Start
  \/ ReadChunk
  \/ ReadDone
  \/ ReadError
  \/ StepLine
  \/ Resume
  \/ ReturnAtYield
  \/ ReturnAtStart

SpecTwo == Init /\ [][NextTwo]_vars

Next ==
  \/ CountTokens
  \/ GenerateJson
  \/ ValidateAuthMethod
  \/ GenerateContent
  \/ GenerateContentStream
  \/ Start
  \/ ReadChunk
  \/ ReadDone
  \/ ReadError
  \/ StepLine
  \/ Resume
  \/ ReturnAtYield
  \/ ReturnAtStart

Spec == Init /\ [][Next]_vars

\* ---------------------------------------------------------------- claims
\* What the claims speak of, read off the state.
IsFinal(ev) == ev.finishReason = "STOP"

FinalEmitted == \E i \in DOMAIN events : IsFinal(events[i])

Finished == pc \in {"completed", "closed", "failed"}

\* The characters of the bytes the reader has delivered so far.
DeliveredText == Decode(<<>>, SubSeq(stream, 1, pos)).text

\* The newline-terminated lines of a text, without the unterminated rest.
CompleteLines(text) ==
  LET pieces == Split(text) IN SubSeq(pieces, 1, Len(pieces) - 1)

\* The lines the for loop has visited so far.
Visited ==
  LET all == CompleteLines(DeliveredText)
  IN SubSeq(all, 1, Len(all) - Len(lines))

\* C1: among the events emitted at most one has isFinal = true, and it is
\* the last one: no event follows a completion-flagged event.
C1_FinalIsLast ==
  \A i \in DOMAIN events : IsFinal(events[i]) => i = Len(events)

\* C2: once an event with isFinal = true has been emitted the generator
\* completes without going on: it is suspended at that yield or finished,
\* never back in the loop or waiting for a further chunk.
C2_StopsAfterFinal ==
  FinalEmitted => pc \in {"suspendedYield", "completed", "closed"}

\* C3: once the reader is acquired it is released exactly once on every
\* exit path (end of stream, return() by the consumer, a failing read):
\* never while the generator is still running, never twice, and never
\* when it was not acquired.
C3_ReleasedExactlyOnce ==
  /\ acquired <= 1
  /\ released <= acquired
  /\ (Finished /\ acquired = 1) => released = 1
  /\ pc \in {"awaitRead", "forLines", "suspendedYield"} =>
       (acquired = 1 /\ released = 0)

\* The consumer has gone away after its first event, with bytes left unread,
\* and the reader was released.
C3_Witness ==
  /\ pc = "closed"
  /\ Len(events) = 1
  /\ pos < Len(stream)
  /\ acquired = 1
  /\ released = 1

\* The records of the lines that parse to a JSON object, in order.
RECURSIVE ObjectsOf(_)
ObjectsOf(ls) ==
  IF ls = <<>> THEN <<>>
  ELSE LET parsed == JSONParse(Head(ls))
       IN (IF parsed.kind = "object" THEN <<parsed.value>> ELSE <<>>)
            \o ObjectsOf(Tail(ls))

\* The claims' words for a record: it carries non-empty text; its
\* completion flag is set; a counter, 0 when the field is absent.
HasText(rec) == "response" \in DOMAIN rec /\ Len(rec.response) > 0

IsDone(rec) == "done" \in DOMAIN rec /\ rec.done

TextOf(rec) == IF "response" \in DOMAIN rec THEN rec.response ELSE ""

CountOf(rec, f) == IF f \in DOMAIN rec THEN rec[f] ELSE 0

\* The records among recs that carry text or the completion flag, in order.
Emittable(recs) == SelectSeq(recs, LAMBDA rec : HasText(rec) \/ IsDone(rec))

\* C4: a parsed record produces an event if and only if its text is
\* non-empty or its completion flag is truthy, and then exactly one: at
\* every moment the events are, one for one and in order, the records
\* visited so far that carry text or the flag.
C4_EmittedIffTextOrDone ==
  LET recs == Emittable(ObjectsOf(Visited))
  IN /\ Len(events) = Len(recs)
     /\ \A i \in DOMAIN events :
          /\ events[i].text = TextOf(recs[i])
          /\ IsFinal(events[i]) = IsDone(recs[i])

\* Three records have been visited: one with neither text nor flag, which
\* was dropped, and a text record and a flag-only record, which gave one
\* event each.
C4_Witness ==
  LET recs == ObjectsOf(Visited)
  IN /\ Len(recs) = 3
     /\ \E i \in DOMAIN recs : ~HasText(recs[i]) /\ ~IsDone(recs[i])
     /\ \E i \in DOMAIN recs : HasText(recs[i]) /\ ~IsDone(recs[i])
     /\ \E i \in DOMAIN recs : ~HasText(recs[i]) /\ IsDone(recs[i])
     /\ Len(events) = 2

\* All the newline-terminated lines of the body.
AllLines == CompleteLines(Decode(<<>>, stream).text)

\* A line that is blank or does not parse as JSON.
BlankOrMalformed(line) ==
  Trim(line) = <<>> \/ JSONParse(line).kind = "SyntaxError"

\* C5: a blank or malformed complete line is dropped without an event and
\* without ending or failing the sequence: the generator fails only when a
\* read fails or there is no body, and when it reaches the end of the stream
\* it has emitted every emittable record of the body, in the body's order.
C5_MalformedLineSkipped ==
  /\ pc = "failed" => (readFailed \/ ~hasBody)
  /\ pc = "completed" =>
       events = [i \in DOMAIN Emittable(ObjectsOf(AllLines)) |->
                   StreamResponse(Emittable(ObjectsOf(AllLines))[i])]

\* The stream has ended after a valid record, a malformed line and another
\* valid record: both records were emitted.
C5_Witness ==
  /\ pc = "completed"
  /\ Len(AllLines) = 3
  /\ ~BlankOrMalformed(AllLines[1])
  /\ BlankOrMalformed(AllLines[2]) /\ Trim(AllLines[2]) # <<>>
  /\ ~BlankOrMalformed(AllLines[3])
  /\ Len(events) = 2
  /\ events[1].text = "Hi"
  /\ IsFinal(events[2])

\* The bytes of the body up to and including its last newline.
RECURSIVE UpToLastNewline(_)
UpToLastNewline(bytes) ==
  IF bytes = <<>> \/ bytes[Len(bytes)] = "LF" THEN bytes
  ELSE UpToLastNewline(SubSeq(bytes, 1, Len(bytes) - 1))

\* C6: text left in the buffer when the stream ends is discarded without
\* being parsed: at the end of the stream the events are those of the body
\* cut after its last newline, whatever follows that newline.
C6_TrailingTextDiscarded ==
  pc = "completed" =>
    Len(events) =
      Len(Emittable(ObjectsOf(CompleteLines(Decode(<<>>, UpToLastNewline(stream)).text))))

\* The stream has ended with a complete done:true record after the last
\* newline: it is still in the buffer and gave no event.
C6_Witness ==
  /\ pc = "completed"
  /\ buffer = <<"{fin", "}">>
  /\ JSONParse(buffer).kind = "object"
  /\ IsDone(JSONParse(buffer).value)
  /\ Len(events) = 1
  /\ ~FinalEmitted

\* C7: every streamed event carries usage exactly when it is final, and then
\* promptTokens and completionTokens are the record's prompt_eval_count and
\* eval_count (0 when absent) and totalTokens is their sum.
C7_UsageIffFinal ==
  LET recs == Emittable(ObjectsOf(Visited))
  IN \A i \in DOMAIN events :
       /\ (events[i].usageMetadata # <<>>) = IsFinal(events[i])
       /\ IsFinal(events[i]) /\ i \in DOMAIN recs =>
            LET u == events[i].usageMetadata[1]
            IN /\ u.promptTokenCount = CountOf(recs[i], "prompt_eval_count")
               /\ u.candidatesTokenCount = CountOf(recs[i], "eval_count")
               /\ u.totalTokenCount = u.promptTokenCount + u.candidatesTokenCount

\* An event without usage was followed by a final event whose record has no
\* prompt_eval_count: its usage counts 0 prompt tokens.
C7_Witness ==
  /\ Len(events) = 2
  /\ ~IsFinal(events[1]) /\ events[1].usageMetadata = <<>>
  /\ IsFinal(events[2])
  /\ events[2].usageMetadata =
       <<[promptTokenCount |-> 0, candidatesTokenCount |-> 2, totalTokenCount |-> 2]>>

\* C8: generateContent's event carries usage if and only if the raw
\* record's completion flag is truthy, and then the counters are
\* prompt_eval_count and eval_count (0 when absent) and their sum.
C8_UsageIffDone ==
  pc = "returned" =>
    /\ (result[1].usageMetadata # <<>>) = IsDone(raw[1])
    /\ IsDone(raw[1]) =>
         result[1].usageMetadata =
           <<[promptTokenCount |-> CountOf(raw[1], "prompt_eval_count"),
              candidatesTokenCount |-> CountOf(raw[1], "eval_count"),
              totalTokenCount |-> CountOf(raw[1], "prompt_eval_count")
                                    + CountOf(raw[1], "eval_count")]>>

\* C9: a failing read reaches the consumer as the failure of the sequence:
\* from the step in which a read rejects on, the generator has failed with
\* the reader's error and the events are those emitted before.
C9_ReadFailurePropagates ==
  [][readFailed' => (pc' = "failed" /\ error' = IOError /\ events' = events)]_vars

\* A read has failed after an event had been emitted.
C9_Witness ==
  /\ readFailed
  /\ pc = "failed"
  /\ error = IOError
  /\ Len(events) >= 1
  /\ pos < Len(stream)

\* C10: a non-success status on the request fails the call at once, with an
\* error that carries the status code and the reason phrase, after exactly
\* one request; no generator and no reader exist and nothing is produced.
C10_HttpErrorFailsAtOnce ==
  (response # <<>> /\ response[1].status \notin 200..299) =>
    /\ pc = "failed"
    /\ requests = 1
    /\ \E i \in 1..(Len(error) - 2) :
         /\ error[i] = ToString(response[1].status)
         /\ error[i + 2] = response[1].statusText
    /\ ~hasBody /\ stream = <<>> /\ pos = 0
    /\ acquired = 0
    /\ events = <<>>
    /\ result = <<>>

\* generateContentStream has met a 404.
C10_Witness ==
  /\ pc = "failed"
  /\ requests = 1
  /\ response = <<[status |-> 404, statusText |-> "Not Found"]>>
  /\ error = <<"Ollama API error: ", "404", " ", "Not Found">>

\* The pieces of a string between its blank lines (two newlines in a row).
RECURSIVE SplitAtBlankLines(_)
SplitAtBlankLines(str) ==
  IF \A i \in 1..(Len(str) - 1) : ~(str[i] = "LF" /\ str[i + 1] = "LF")
  THEN <<str>>
  ELSE LET i == CHOOSE k \in 1..(Len(str) - 1) :
                  /\ str[k] = "LF" /\ str[k + 1] = "LF"
                  /\ \A j \in 1..(k - 1) : ~(str[j] = "LF" /\ str[j + 1] = "LF")
       IN <<SubSeq(str, 1, i - 1)>> \o SplitAtBlankLines(SubSeq(str, i + 2, Len(str)))

RolePrefixes == {"System: ", "User: ", "Assistant: "}

HasRole(content, role) == "role" \in DOMAIN content /\ content.role = role

HasNamedRole(content) ==
  HasRole(content, "system") \/ HasRole(content, "user") \/ HasRole(content, "model")

\* A segment begins with the prefix of the turn's role.
BeginsWithRolePrefix(seg, content) ==
  /\ seg # <<>>
  /\ HasRole(content, "system") => seg[1] = "System: "
  /\ HasRole(content, "user") => seg[1] = "User: "
  /\ HasRole(content, "model") => seg[1] = "Assistant: "

\* C11 as claimed: N turns give N segments separated by one blank line
\* each, in turn order, every one beginning with "System: ", "User: " or
\* "Assistant: " according to its turn's role; no turn gives the empty string.
C11_EveryTurnPrefixed ==
  pc = "counted" =>
    IF contents = <<>> THEN prompt = <<>>
    ELSE LET segs == SplitAtBlankLines(prompt)
         IN /\ Len(segs) = Len(contents)
            /\ \A i \in DOMAIN contents :
                 /\ i \in DOMAIN segs
                 /\ BeginsWithRolePrefix(segs[i], contents[i])
                 /\ segs[i] # <<>> /\ segs[i][1] \in RolePrefixes

\* C11 as amended: N turns give N segments separated by one blank line each,
\* in turn order; the segment of a turn whose role is system, user or model
\* is the role's prefix followed by the turn's rendered parts, the segment of
\* a turn with another role or none is the rendered parts with no prefix; no
\* turn gives the empty string.
C11_NamedRolesPrefixed ==
  pc = "counted" =>
    IF contents = <<>> THEN prompt = <<>>
    ELSE LET segs == SplitAtBlankLines(prompt)
         IN /\ Len(segs) = Len(contents)
            /\ \A i \in DOMAIN contents :
                 /\ i \in DOMAIN segs
                 /\ IF HasNamedRole(contents[i])
                    THEN /\ BeginsWithRolePrefix(segs[i], contents[i])
                         /\ Tail(segs[i]) = ConvertPartsToText(PartsOf(contents[i]))
                    ELSE /\ segs[i] = ConvertPartsToText(PartsOf(contents[i]))
                         /\ \A j \in DOMAIN segs[i] : segs[i][j] \notin RolePrefixes

\* Three turns, of the roles system, function and model, have been encoded.
C11_Witness ==
  /\ pc = "counted"
  /\ Len(contents) = 3
  /\ HasRole(contents[1], "system")
  /\ HasRole(contents[2], "function") /\ PartsOf(contents[2]) # <<>>
  /\ HasRole(contents[3], "model")
  /\ prompt = <<"System: ", "hi", "LF", "LF", "hi", "LF", "LF", "Assistant: ", "hi">>

\* A part as the claim renders it: text verbatim, whatever the text.
ClaimedPart(part) ==
  IF "text" \in DOMAIN part THEN Str(part.text)
  ELSE IF "functionCall" \in DOMAIN part
  THEN <<"[Function Call: ", part.functionCall.name, "]">>
  ELSE IF "functionResponse" \in DOMAIN part
  THEN <<"[Function Response: ">> \o Stringify(part.functionResponse) \o <<"]">>
  ELSE <<"[Unsupported content type]">>

\* C12: within a turn the parts are rendered in order and joined by one
\* space; a text part renders as its text verbatim, the empty text included,
\* a function call and a function response as their markers, and only a
\* part of no such kind as the unsupported marker.
C12_PartsRenderedByKind ==
  (pc = "counted" /\ Len(contents) = 1 /\ HasRole(contents[1], "user")) =>
    prompt = <<"User: ">> \o
      Join([i \in DOMAIN PartsOf(contents[1]) |->
              ClaimedPart(PartsOf(contents[1])[i])], <<"SP">>)

\* The events of the emittable records among some lines.
EventsOfLines(ls) ==
  [i \in DOMAIN Emittable(ObjectsOf(ls)) |->
     StreamResponse(Emittable(ObjectsOf(ls))[i])]

\* C14: the events depend only on the concatenation of the bytes received,
\* not on how they were cut into chunks: at every moment the events emitted,
\* followed by those of the lines still waiting in the for loop, are the
\* events of the complete lines of the bytes delivered so far, and the
\* buffer is what follows their last newline, so it contains no newline.
C14_ChunkingIndependent ==
  /\ events \o EventsOfLines(lines) = EventsOfLines(CompleteLines(DeliveredText))
  /\ buffer = Split(DeliveredText)[Len(Split(DeliveredText))]
  /\ \A i \in DOMAIN buffer : buffer[i] # "LF"

\* After an event, a chunk has brought a whole record and the first half of
\* the next one: the record waits in the loop, the half in the buffer.
C14_Witness ==
  /\ pc = "forLines"
  /\ Len(events) = 1
  /\ lines = <<<<"{end", "}">>>>
  /\ buffer = <<"{fin">>
  /\ pos = Len(stream)

\* The events, buffer, decoder and reader of one call are those of that call
\* run alone on its own bytes.
AsIfAlone(c) ==
  LET decoded == Decode(<<>>, SubSeq(c.stream, 1, c.pos))
      pieces == Split(decoded.text)
  IN /\ c.events \o EventsOfLines(c.lines) =
          EventsOfLines(CompleteLines(decoded.text))
     /\ c.buffer = pieces[Len(pieces)]
     /\ c.decoder = decoded.pending
     /\ c.acquired <= 1
     /\ c.released <= c.acquired
     /\ (c.pc \in {"completed", "closed", "failed"} /\ c.acquired = 1) =>
          c.released = 1
     /\ c.pc \in {"awaitRead", "forLines", "suspendedYield"} =>
          (c.acquired = 1 /\ c.released = 0)

\* C13: two streaming calls whose reads and pulls interleave in any order are
\* independent: each keeps its own decode buffer and reader, so at every
\* moment each has emitted the events it would have emitted alone, and a step
\* of one call (a read, a failure of its reader, a release) changes nothing of
\* the other.
C13_CallsIndependent ==
  /\ [](AsIfAlone(Running) /\ AsIfAlone(parked))
  /\ [][/\ running' = running => parked' = parked
        /\ running' # running => (parked' = Running /\ Running' = parked)]_vars

\* One call failed on a read after its first event and released its reader;
\* the other call, on another body, went on to its end and emitted both of
\* its events.
C13_Witness ==
  /\ parked.pc = "failed"
  /\ parked.readFailed
  /\ Len(parked.events) = 1
  /\ parked.released = 1
  /\ pc = "completed"
  /\ Len(events) = 2
  /\ released = 1
  /\ stream # parked.stream
  /\ requests = 2

\* A reply that is a response with a status outside 200..299.
IsFailure(reply) == reply # <<>> /\ reply[1].status \notin 200..299

\* The error names the status and the reason of the response.
Carries(message, resp) ==
  /\ \E i \in DOMAIN message : message[i] = ToString(resp.status)
  /\ \E i \in DOMAIN message : message[i] = resp.statusText

\* C15: generateJson sends at most two requests: the first with the format
\* constraint, a second without it if and only if the first response has
\* status 400; a failing last response fails the call with an error that
\* carries its status and reason, and no request follows a successful
\* response.
C15_SecondRequestOnlyAfter400 ==
  pc \in {"jsonReturned", "jsonFailed"} =>
    /\ Len(sent) \in 1..2
    /\ requests = Len(sent)
    /\ sent[1].request.format = <<"json">>
    /\ Len(sent) = 2 <=>
         (sent[1].reply # <<>> /\ sent[1].reply[1].status = 400)
    /\ Len(sent) = 2 => sent[2].request.format = <<>>
    /\ IsFailure(sent[Len(sent)].reply) =>
         /\ pc = "jsonFailed"
         /\ Carries(error, sent[Len(sent)].reply[1])
    /\ \A i \in DOMAIN sent :
         (sent[i].reply # <<>> /\ ~IsFailure(sent[i].reply)) => i = Len(sent)

\* The first request was answered 400, the second, sent without the
\* constraint, 500, and the call failed with the 500 in its error.
C15_Witness ==
  /\ pc = "jsonFailed"
  /\ Len(sent) = 2
  /\ sent[1].reply[1].status = 400
  /\ sent[2].request.format = <<>>
  /\ sent[2].reply # <<>>
  /\ sent[2].reply[1].status = 500
  /\ Carries(error, sent[2].reply[1])
  /\ ~Carries(error, sent[1].reply[1])

\* The methods that need nothing from the environment.
KeylessMethods ==
  {AuthType.LOGIN_WITH_GOOGLE, AuthType.CLOUD_SHELL, AuthType.USE_OLLAMA}

\* A variable is unset, or set to the empty string.
UnsetOrEmpty(name) == env[name] \in {<<>>, <<"">>}

\* The parts of the statement about validateAuthMethod that do not depend on
\* the reading of "unset" for Vertex AI.
AuthVerdictElsewhere ==
  /\ authMethod[1] \in KeylessMethods => verdict[1] = "null"
  /\ authMethod[1] = AuthType.USE_GEMINI =>
       (verdict[1] # "null" <=> UnsetOrEmpty("GEMINI_API_KEY"))
  /\ authMethod[1] \notin {AuthType[f] : f \in DOMAIN AuthType} =>
       verdict[1] = "Invalid auth method selected."

\* C16: validateAuthMethod returns null for the Google-login, Cloud-Shell and
\* Ollama methods whatever the environment; for the Gemini-key method an
\* error exactly when GEMINI_API_KEY is unset or empty; for Vertex AI an
\* error exactly when GOOGLE_API_KEY is unset and GOOGLE_CLOUD_PROJECT and
\* GOOGLE_CLOUD_LOCATION are not both set; for any other string
\* 'Invalid auth method selected.'.
C16_VertexErrorIffUnset ==
  pc = "validated" =>
    /\ AuthVerdictElsewhere
    /\ authMethod[1] = AuthType.USE_VERTEX_AI =>
         (verdict[1] # "null" <=>
            /\ env["GOOGLE_API_KEY"] = <<>>
            /\ ~(/\ env["GOOGLE_CLOUD_PROJECT"] # <<>>
                 /\ env["GOOGLE_CLOUD_LOCATION"] # <<>>))

\* C16, with empty counted as missing for Vertex AI too: for Vertex AI an
\* error exactly when GOOGLE_API_KEY is unset or empty and GOOGLE_CLOUD_PROJECT
\* and GOOGLE_CLOUD_LOCATION are not both set to a non-empty value; the rest
\* as above.
C16_VertexErrorIffUnsetOrEmpty ==
  pc = "validated" =>
    /\ AuthVerdictElsewhere
    /\ authMethod[1] = AuthType.USE_VERTEX_AI =>
         (verdict[1] # "null" <=>
            /\ UnsetOrEmpty("GOOGLE_API_KEY")
            /\ \/ UnsetOrEmpty("GOOGLE_CLOUD_PROJECT")
               \/ UnsetOrEmpty("GOOGLE_CLOUD_LOCATION"))

\* Vertex AI with GOOGLE_API_KEY set to the empty string and the project set
\* without a location: the method is refused.
C16_Witness ==
  /\ pc = "validated"
  /\ authMethod = <<AuthType.USE_VERTEX_AI>>
  /\ env["GOOGLE_API_KEY"] = <<"">>
  /\ env["GOOGLE_CLOUD_PROJECT"] = <<"x">>
  /\ env["GOOGLE_CLOUD_LOCATION"] = <<>>
  /\ verdict # <<"null">>

====
